---------------------------- MODULE Spec2Model ----------------------------
(***************************************************************************)
(* NEET quiz generator (App component): the generation pipeline of         *)
(* onSubmit (file encoding, request with retry and backoff, response       *)
(* parsing) and the quiz state held in the five useState cells.            *)
(*                                                                         *)
(* onSubmit is an async function.  Each run of it is a process with a      *)
(* position (pc).  Its first action is the state resets of lines 43-47;    *)
(* every later action is one stretch of the try block, from the event      *)
(* that resumes the run up to its next await (or to its end).              *)
(***************************************************************************)
EXTENDS Integers, Sequences, FiniteSets, TLC

\* ------------------------------------------------------------------ bounds
MaxSubs == 2        \* submissions started in one session
MaxFiles == 2       \* files selected in one submission
MaxQuestions == 2   \* question records in one service answer

\* ------------------------------------------------------- program constants
\* Variant: one retry more than the constant of line 121.
MAX_RETRIES_OneMore == 5 + 1

MAX_RETRIES == 5
BACKOFF_UNIT == 100
BACKOFF_BASE == 2
MIN_QUESTIONS == 1

\* ------------------------------------------------------------ JS values
Null == "<null>"
Undefined == "<undefined>"
DEFAULT_QUESTIONS == "10"
ERROR_MESSAGE == "Failed to generate questions. Please try again. Ensure files contain relevant text/images."

RECURSIVE Pow(_, _)
Pow(b, e) == IF e = 0 THEN 1 ELSE b * Pow(b, e - 1)

SeqsUpTo(S, n) == UNION {[1..k -> S] : k \in 0..n}

\* ------------------------------------------------------------ input files
\* A File: its declared type, its bytes, and whether the reader can read it.
Files ==
    { [type |-> "image/png", bytes |-> "png", readable |-> TRUE],
      [type |-> "text/plain", bytes |-> "txt", readable |-> TRUE],
      [type |-> "application/pdf", bytes |-> "pdf", readable |-> FALSE] }

\* The files selected in the file input: each file at most once.
FileLists ==
    {files \in SeqsUpTo(Files, MaxFiles) :
        \A i, j \in 1..Len(files) : i # j => files[i] # files[j]}

\* The number input: its value as react-hook-form hands it over (a string,
\* empty when the field is left empty) and the number it stands for.
NumberInputs ==
    { [value |-> "", number |-> 0],
      [value |-> "-2", number |-> -2],
      [value |-> "0", number |-> 0],
      [value |-> "1", number |-> 1],
      [value |-> "3", number |-> 3] }

\* Variant: the number input has no min attribute.
SubmitBlocked_NoMin(input) == FALSE

\* The browser does not fire the submit event of a form whose number input
\* holds a value under its min attribute, min="1" (an empty field is valid).
SubmitBlocked(input) == input.value # "" /\ input.number < MIN_QUESTIONS

\* The form data onSubmit can be called with.
FormData ==
    { [files |-> files, numQuestions |-> input.value] :
        files \in FileLists, input \in {i \in NumberInputs : ~SubmitBlocked(i)} }

\* Variant: the default is not applied.
CountPrinted_NoDefault(numQuestions) == numQuestions

\* data.numQuestions || 10, as `${numQuestions}` prints it: an empty string
\* is falsy, every other string is kept as it is.
CountPrinted(numQuestions) ==
    IF numQuestions = "" THEN DEFAULT_QUESTIONS ELSE numQuestions

\* Variant: the template with a fixed range for the count.
TextPart_FixedRange(numQuestions) ==
    [text |-> <<"From the following files, generate ", "10-20",
                " NEET-level multiple-choice questions.">>]

\* The text part of lines 59-72: the template with the count filled in.
TextPart(numQuestions) ==
    [text |-> <<"From the following files, generate ", CountPrinted(numQuestions),
                " NEET-level multiple-choice questions.">>]

\* FileReader.readAsDataURL: fires onload with a data URL, or onerror.
\* The data URL is kept as the list of its comma separated pieces.
readAsDataURL(file) ==
    IF file.readable
    THEN [event |-> "load", result |-> <<"data:" \o file.type \o ";base64", "b64:" \o file.bytes>>]
    ELSE [event |-> "error", result |-> <<>>]

\* Variant: the reader's onerror is not wired, the promise resolves anyway.
fileToBase64_NoReject(file) ==
    [rejected |-> FALSE, value |-> Undefined]

\* fileToBase64: resolves with reader.result.split(",")[1], rejects on error.
fileToBase64(file) ==
    LET r == readAsDataURL(file)
    IN  IF r.event = "load"
        THEN [rejected |-> FALSE, value |-> IF Len(r.result) >= 2 THEN r.result[2] ELSE Undefined]
        ELSE [rejected |-> TRUE, value |-> Undefined]

\* One inlineData part of the request.
InlinePart(file, base64Data) == [mimeType |-> file.type, data |-> base64Data]

\* The payload of lines 110-116 (the fixed generationConfig left out).
NoPayload == [built |-> FALSE, parts |-> <<>>]
Payload(parts) == [built |-> TRUE, parts |-> parts]

\* ------------------------------------------------------ service responses
Labels == {"A", "B"}

\* Question records as the service may send them: a field the service left
\* out reads as undefined.  A text is the list of its characters; the
\* correct answer is a string of one character.
QuestionPool ==
    { [questionText |-> <<"a", "\"", "b", "\"">>, options |-> <<<<"x">>, <<"y">>>>,
       correctAnswer |-> "A", solution |-> <<"S">>],
      [questionText |-> <<"Q">>, options |-> <<<<"x">>, <<"y">>>>,
       correctAnswer |-> "B", solution |-> <<"\"", "s">>],
      [questionText |-> <<"Q">>, options |-> <<<<"x">>, <<"y">>>>,
       correctAnswer |-> Undefined, solution |-> <<"S">>] }

QuestionLists == SeqsUpTo(QuestionPool, MaxQuestions)

\* The value a JSON text decodes to: null, an object without a questions
\* key, or an object with a questions array.
JsonValues ==
    { [kind |-> "null", hasQuestions |-> FALSE, questions |-> <<>>],
      [kind |-> "object", hasQuestions |-> FALSE, questions |-> <<>>] }
    \cup { [kind |-> "object", hasQuestions |-> TRUE, questions |-> qs] : qs \in QuestionLists }

\* The text fragment of the answer: valid JSON text or not.
Texts ==
    { [valid |-> FALSE, value |-> [kind |-> "null", hasQuestions |-> FALSE, questions |-> <<>>]] }
    \cup { [valid |-> TRUE, value |-> v] : v \in JsonValues }

\* The body of a response: whether it reads as JSON at all, whether
\* candidates[0].content.parts[0] is there, and the text it holds.
Bodies ==
    { [isJson |-> FALSE, hasFragment |-> FALSE, text |-> t] : t \in {tt \in Texts : ~tt.valid} }
    \cup { [isJson |-> TRUE, hasFragment |-> FALSE, text |-> t] : t \in {tt \in Texts : ~tt.valid} }
    \cup { [isJson |-> TRUE, hasFragment |-> TRUE, text |-> t] : t \in Texts }

NoBody == [isJson |-> FALSE, hasFragment |-> FALSE,
           text |-> [valid |-> FALSE, value |-> [kind |-> "null", hasQuestions |-> FALSE, questions |-> <<>>]]]

\* What one fetch can settle with: a rejection (network error), a response
\* with a non-success status, or a response with a success status.
FetchOutcomes ==
    { [rejected |-> TRUE, ok |-> FALSE, body |-> NoBody],
      [rejected |-> FALSE, ok |-> FALSE, body |-> NoBody] }
    \cup { [rejected |-> FALSE, ok |-> TRUE, body |-> b] : b \in Bodies }

\* The local variable response: null, or the Response last assigned.
NullResponse == [isNull |-> TRUE, ok |-> FALSE, body |-> NoBody]
ResponseOf(outcome) == [isNull |-> FALSE, ok |-> outcome.ok, body |-> outcome.body]

\* response.json(): rejects when the body is not JSON.
responseJson(response) ==
    [rejected |-> ~response.body.isJson, value |-> response.body]

\* result.candidates[0].content.parts[0].text: throws when the path is absent.
fragmentText(result) ==
    [throws |-> ~result.hasFragment, value |-> result.text]

\* JSON.parse(jsonString): throws on text that is not JSON.
JSONparse(jsonString) ==
    [throws |-> ~jsonString.valid, value |-> jsonString.value]

\* parsedData.questions: throws on null, undefined when the key is absent.
\* The state cell questions holds null, undefined or an array.
NullQuestions == [tag |-> "null", items |-> <<>>]
UndefinedQuestions == [tag |-> "undefined", items |-> <<>>]
ArrayQuestions(qs) == [tag |-> "array", items |-> qs]

questionsOf(parsedData) ==
    IF parsedData.kind = "null" THEN [throws |-> TRUE, value |-> UndefinedQuestions]
    ELSE IF ~parsedData.hasQuestions THEN [throws |-> FALSE, value |-> UndefinedQuestions]
    ELSE [throws |-> FALSE, value |-> ArrayQuestions(parsedData.questions)]

\* Lines 141-143 and the read of parsedData.questions in line 146 as one
\* function of the response: the value handed to setQuestions, or a throw.
parseResponse(response) ==
    LET j == responseJson(response)
        f == fragmentText(j.value)
        p == JSONparse(f.value)
        q == questionsOf(p.value)
    IN  IF j.rejected \/ f.throws \/ p.throws \/ q.throws
        THEN [throws |-> TRUE, value |-> UndefinedQuestions]
        ELSE [throws |-> FALSE, value |-> q.value]

\* JS truthiness of the questions cell (an empty array is truthy).
Truthy(q) == q.tag = "array"


\* ------------------------------------------------------------------ state
VARIABLES
    loading,    \* useState(false)
    questions,  \* useState(null)
    answers,    \* useState({}): a map from question index to option label
    results,    \* useState(null)
    error,      \* useState(null)
    download,   \* what the last click on an export button handed to the browser
    subs,       \* the runs of onSubmit, by number: position and locals
    started     \* how many runs of onSubmit have started

vars == <<loading, questions, answers, results, error, download, subs, started>>

SubIds == 1..MaxSubs

NullResults == [tag |-> "null", score |-> 0, totalQuestions |-> 0,
                accuracy |-> [isNaN |-> FALSE, num |-> 0, den |-> 1]]
EmptyAnswers == [i \in {} |-> Null]
NoDownload == [kind |-> "none", format |-> "", filename |-> "", mimeType |-> "", content |-> <<>>]

\* A run of onSubmit that has not started, or whose locals are gone.
\* The fields reads, attempts, waits, firstOk, okAttempt, sawReject, sent
\* and from are not variables of the program: they record what the run has
\* done (calls of fileToBase64, fetch calls, timers set, the first response
\* with a success status and the number of the attempt that got it, whether
\* a fetch rejected, the body of the last fetch call, the session variant
\* the form was submitted in).
NoSub ==
    [pc |-> "none", files |-> <<>>, numQuestions |-> "", parts |-> <<>>,
     payload |-> NoPayload, response |-> NullResponse,
     retries |-> 0, attempts |-> 0, waits |-> <<>>, firstOk |-> NullResponse,
     okAttempt |-> 0, sawReject |-> FALSE, reads |-> 0, sent |-> NoPayload,
     from |-> "none"]

\* The locals of the runs that have returned are dropped when the next
\* handler runs.
Dropped(runs) == [i \in SubIds |-> IF runs[i].pc = "done" THEN NoSub ELSE runs[i]]

Init ==
    /\ loading = FALSE
    /\ questions = NullQuestions
    /\ answers = EmptyAnswers
    /\ results = NullResults
    /\ error = Null
    /\ download = NoDownload
    /\ subs = [i \in SubIds |-> NoSub]
    /\ started = 0

\* ------------------------------------------------------------- onSubmit
\* Variant: the submit button is never disabled.
SubmitEnabled_Always == TRUE

\* The submit button is rendered with disabled={loading}.
SubmitEnabled == ~loading

\* Variant: the catch block sets the error and leaves loading as it is.
Catch_KeepsLoading(id, s) ==
    /\ error' = ERROR_MESSAGE
    /\ subs' = [subs EXCEPT ![id] = [s EXCEPT !.pc = "done"]]
    /\ UNCHANGED <<loading, questions, answers, results, download, started>>

\* catch (e): setError(...); setLoading(false).  The run, with locals s, is
\* over.
Catch(id, s) ==
    /\ error' = ERROR_MESSAGE
    /\ loading' = FALSE
    /\ subs' = [subs EXCEPT ![id] = [s EXCEPT !.pc = "done"]]
    /\ UNCHANGED <<questions, answers, results, download, started>>

\* The run goes on with locals s; no state cell is written.
Continue(id, s) ==
    /\ subs' = [subs EXCEPT ![id] = s]
    /\ UNCHANGED <<loading, questions, answers, results, error, download, started>>

\* Variant: the backoff computed from retries before its increment.
Backoff_BeforeIncrement(retries) == Pow(BACKOFF_BASE, retries - 1) * BACKOFF_UNIT

\* The exponential backoff of line 134, with retries already incremented.
Backoff(retries) == Pow(BACKOFF_BASE, retries) * BACKOFF_UNIT

\* Variant: the loop condition off by one.
LoopContinues_Inclusive(retries) == retries <= MAX_RETRIES

\* The loop condition of line 122.
LoopContinues(retries) == retries < MAX_RETRIES

\* Variant: the loop is not left on success.
BreakOnOk_Never(response) == FALSE

\* Line 129: leave the loop on a response with a success status.
BreakOnOk(response) == response.ok

\* Line 137: the outcome of the loop is a failure.
LoopFailed(response) == response.isNull \/ ~response.ok

\* The fetch call of line 124 with body JSON.stringify(payload), the run
\* suspended on it.
IssueFetch(s) == [s EXCEPT !.pc = "fetch", !.attempts = @ + 1, !.sent = s.payload]

\* The top of the while loop with locals s: another fetch, or the code after
\* the loop (lines 137-141): throw, or call response.json() and suspend.
LoopTop(id, s) ==
    IF LoopContinues(s.retries) THEN Continue(id, IssueFetch(s))
    ELSE IF LoopFailed(s.response) THEN Catch(id, s)
    ELSE Continue(id, [s EXCEPT !.pc = "json"])

\* Lines 110-122: the payload is built from parts, then the while loop is
\* entered.
EnterLoop(id, s) == LoopTop(id, [s EXCEPT !.payload = Payload(s.parts)])

\* The files of a run are checked before anything is read or sent (line 53).
FilesRejected(files) == Len(files) = 0

\* The session variant the five cells stand for.
Variant ==
    IF loading THEN "Loading"
    ELSE IF error # Null THEN "Error"
    ELSE IF ~Truthy(questions) THEN "Idle"
    ELSE IF results.tag = "null" THEN "Answering"
    ELSE "Scored"

\* Variant: the answers of the round before are kept.
StartRun_KeepsAnswers(data) ==
    /\ started < MaxSubs
    /\ started' = started + 1
    /\ loading' = TRUE
    /\ questions' = NullQuestions
    /\ results' = NullResults
    /\ error' = Null
    /\ download' = NoDownload
    /\ subs' = [Dropped(subs) EXCEPT ![started + 1] =
                  [NoSub EXCEPT !.pc = "try", !.files = data.files,
                                !.numQuestions = data.numQuestions, !.from = Variant]]
    /\ UNCHANGED answers

\* A run of onSubmit starts with the form data and resets the five state
\* cells (lines 43-47).
StartRun(data) ==
    /\ started < MaxSubs
    /\ started' = started + 1
    /\ loading' = TRUE
    /\ questions' = NullQuestions
    /\ results' = NullResults
    /\ error' = Null
    /\ answers' = EmptyAnswers
    /\ download' = NoDownload
    /\ subs' = [Dropped(subs) EXCEPT ![started + 1] =
                  [NoSub EXCEPT !.pc = "try", !.files = data.files,
                                !.numQuestions = data.numQuestions, !.from = Variant]]

\* The submit button is clicked and the form is submitted.
onSubmit(data) ==
    /\ SubmitEnabled
    /\ StartRun(data)

\* The call of fileToBase64 of line 78, the run suspended on it.
StartRead(s) == [s EXCEPT !.pc = "encode", !.reads = @ + 1]

\* The try block up to its first await: the check of the file list, the
\* text part, and the call of fileToBase64 for the first file of the for
\* loop (a loop over no file goes straight on to the request).
TryBlock(id) ==
    /\ subs[id].pc = "try"
    /\ LET s == subs[id]
           withText == [s EXCEPT !.parts = <<TextPart(s.numQuestions)>>]
       IN  IF FilesRejected(s.files) THEN Catch(id, s)
           ELSE IF Len(s.files) = 0 THEN EnterLoop(id, withText)
           ELSE Continue(id, StartRead(withText))

\* The reader of the file being encoded fires onload or onerror: the await
\* of line 78 resumes.  A rejection goes to the catch block; otherwise the
\* part is pushed, and after the last file the payload is built and the
\* loop is entered.
FileRead(id) ==
    /\ subs[id].pc = "encode"
    /\ LET s == subs[id]
           file == s.files[Len(s.parts)]
           r == fileToBase64(file)
           pushed == [s EXCEPT !.parts = Append(@, InlinePart(file, r.value))]
       IN  IF r.rejected THEN Catch(id, s)
           ELSE IF Len(pushed.parts) <= Len(s.files) THEN Continue(id, StartRead(pushed))
           ELSE EnterLoop(id, pushed)

\* The fetch settles: the await of line 124 resumes.  A rejection is caught
\* and swallowed (line 130).  On a success status the loop is left and the
\* code after it runs; otherwise retries is incremented and the backoff
\* timer is set.
FetchSettled(id, outcome) ==
    /\ subs[id].pc = "fetch"
    /\ LET s == subs[id]
           firstSuccess == ~outcome.rejected /\ outcome.ok /\ s.okAttempt = 0
           got == [s EXCEPT
                     !.response = IF outcome.rejected THEN @ ELSE ResponseOf(outcome),
                     !.sawReject = @ \/ outcome.rejected,
                     !.firstOk = IF firstSuccess THEN ResponseOf(outcome) ELSE @,
                     !.okAttempt = IF firstSuccess THEN s.attempts ELSE @]
       IN  IF ~outcome.rejected /\ BreakOnOk(got.response)
           THEN IF LoopFailed(got.response) THEN Catch(id, got)
                ELSE Continue(id, [got EXCEPT !.pc = "json"])
           ELSE Continue(id, [got EXCEPT !.pc = "wait",
                                         !.retries = @ + 1,
                                         !.waits = Append(@, Backoff(s.retries + 1))])

\* The backoff timer fires: the await of line 134 resumes at the top of the
\* loop.
TimerFired(id) ==
    /\ subs[id].pc = "wait"
    /\ LoopTop(id, subs[id])

\* response.json() settles: the await of line 141 resumes.  Lines 142-147:
\* the text is taken out and parsed, then setQuestions and setLoading(false);
\* any throw goes to the catch block.
JsonSettled(id) ==
    /\ subs[id].pc = "json"
    /\ LET p == parseResponse(subs[id].response)
       IN  IF p.throws THEN Catch(id, subs[id])
           ELSE /\ questions' = p.value
                /\ loading' = FALSE
                /\ subs' = [subs EXCEPT ![id].pc = "done"]
                /\ UNCHANGED <<answers, results, error, download, started>>

\* ------------------------------------------------------------- the quiz
\* Variant: the quiz stays rendered once there are results.
QuizRendered_IgnoresResults == Truthy(questions)

\* The quiz (radio inputs and the Submit Quiz button) is rendered when
\* questions && !results.
QuizRendered == Truthy(questions) /\ results.tag = "null"

\* answers[index], undefined when the key is absent.
AnswerAt(map, index) == IF index \in DOMAIN map THEN map[index] ELSE Undefined

\* String.fromCharCode(65 + optIndex) for the options rendered.
OptionLabel(optIndex) == IF optIndex = 0 THEN "A" ELSE IF optIndex = 1 THEN "B"
                         ELSE IF optIndex = 2 THEN "C" ELSE "D"

\* Variant: the updater without the spread of prevAnswers.
SelectAnswer_NoSpread(prevAnswers, questionIndex, selectedOption) ==
    [k \in {questionIndex} |-> selectedOption]

\* The setAnswers updater of handleAnswerSelect.
SelectAnswer(prevAnswers, questionIndex, selectedOption) ==
    [k \in (DOMAIN prevAnswers) \cup {questionIndex} |->
        IF k = questionIndex THEN selectedOption ELSE prevAnswers[k]]

\* Variant: the radio inputs stay rendered once there are results.
handleAnswerSelect_WhileScored(qIndex, optIndex) ==
    /\ Truthy(questions)
    /\ qIndex \in 0..(Len(questions.items) - 1)
    /\ optIndex \in 0..(Len(questions.items[qIndex + 1].options) - 1)
    /\ answers' = SelectAnswer(answers, qIndex, OptionLabel(optIndex))
    /\ subs' = Dropped(subs)
    /\ UNCHANGED <<loading, questions, results, error, download, started>>

\* A radio input of question qIndex changes.
handleAnswerSelect(qIndex, optIndex) ==
    /\ QuizRendered
    /\ qIndex \in 0..(Len(questions.items) - 1)
    /\ optIndex \in 0..(Len(questions.items[qIndex + 1].options) - 1)
    /\ answers' = SelectAnswer(answers, qIndex, OptionLabel(optIndex))
    /\ subs' = Dropped(subs)
    /\ UNCHANGED <<loading, questions, results, error, download, started>>

\* The forEach of lines 173-177 from index on: one more for every question
\* whose answer === its correctAnswer.
RECURSIVE CountFrom(_, _, _)
CountFrom(qs, map, index) ==
    IF index >= Len(qs) THEN 0
    ELSE (IF AnswerAt(map, index) = qs[index + 1].correctAnswer THEN 1 ELSE 0)
         + CountFrom(qs, map, index + 1)

\* Variant: the first question is not counted.
CorrectCount_SkipsFirst(qs, map) == CountFrom(qs, map, 1)

\* correctCount after the forEach of lines 173-177.
CorrectCount(qs, map) == CountFrom(qs, map, 0)

\* (correctCount / totalQuestions) * 100: not a number when both are 0.
Accuracy(correctCount, totalQuestions) ==
    IF totalQuestions = 0
    THEN [isNaN |-> TRUE, num |-> 0, den |-> 0]
    ELSE [isNaN |-> FALSE, num |-> correctCount * 100, den |-> totalQuestions]

\* The Submit Quiz button is clicked.
calculateResults ==
    /\ QuizRendered
    /\ LET correctCount == CorrectCount(questions.items, answers)
           totalQuestions == Len(questions.items)
       IN  results' = [tag |-> "set", score |-> correctCount, totalQuestions |-> totalQuestions,
                       accuracy |-> Accuracy(correctCount, totalQuestions)]
    /\ subs' = Dropped(subs)
    /\ UNCHANGED <<loading, questions, answers, error, download, started>>

\* ------------------------------------------------------------- the export
\* The export buttons are part of the results block, rendered when results
\* is set (lines 342, 383-396).
ExportRendered == results.tag = "set"

\* str.replace(/"/g, '""') on the characters of a text.
RECURSIVE DoubleQuotes(_)
DoubleQuotes(chars) ==
    IF chars = <<>> THEN <<>>
    ELSE (IF Head(chars) = "\"" THEN <<"\"", "\"">> ELSE <<Head(chars)>>)
         \o DoubleQuotes(Tail(chars))

\* `"${...replace(/"/g, '""')}"`: the field in double quotes.
CsvField(chars) == <<"\"">> \o DoubleQuotes(chars) \o <<"\"">>

\* The characters of a string of one character.
Chars(str) == <<str>>

CSV_HEADER ==
    <<"\"", "Question", "\"", ",", "\"", "Correct Answer", "\"", ",",
      "\"", "Solution", "\"", "\n">>

\* Line 205: one row of the CSV file.
CsvRow(q) ==
    CsvField(q.questionText) \o <<",">> \o CsvField(Chars(q.correctAnswer))
    \o <<",">> \o CsvField(q.solution) \o <<"\n">>

\* q.correctAnswer.replace throws a TypeError when correctAnswer is undefined
\* (and so do the other two fields).
CsvRowThrows(q) ==
    q.questionText = Undefined \/ q.correctAnswer = Undefined \/ q.solution = Undefined

\* Lines 199-206: the header, then the forEach over the questions.
RECURSIVE CsvRows(_)
CsvRows(qs) == IF qs = <<>> THEN <<>> ELSE CsvRow(Head(qs)) \o CsvRows(Tail(qs))

CsvContent(qs) == CSV_HEADER \o CsvRows(qs)

\* Lines 213-215: the options of one question, each with its letter.
RECURSIVE TxtOptions(_, _)
TxtOptions(options, optIndex) ==
    IF optIndex >= Len(options) THEN <<>>
    ELSE <<"  ", OptionLabel(optIndex), ". ">> \o options[optIndex + 1] \o <<"\n">>
         \o TxtOptions(options, optIndex + 1)

\* `${q.correctAnswer}`: undefined prints as the word undefined.
Printed(value) == IF value = Undefined THEN <<"undefined">> ELSE Chars(value)

\* Variant: the questions are numbered from 0.
TxtBlock_ZeroBased(q, index) ==
    <<"Question ", ToString(index), ": ">> \o q.questionText \o <<"\n">>
    \o TxtOptions(q.options, 0)
    \o <<"Correct Answer: ">> \o Printed(q.correctAnswer) \o <<"\n">>
    \o <<"Solution: ">> \o q.solution \o <<"\n", "\n">>

\* Lines 212-217: the block of the question at index.
TxtBlock(q, index) ==
    <<"Question ", ToString(index + 1), ": ">> \o q.questionText \o <<"\n">>
    \o TxtOptions(q.options, 0)
    \o <<"Correct Answer: ">> \o Printed(q.correctAnswer) \o <<"\n">>
    \o <<"Solution: ">> \o q.solution \o <<"\n", "\n">>

\* Lines 211-218: the forEach over the questions, from index on.
RECURSIVE TxtBlocks(_, _)
TxtBlocks(qs, index) ==
    IF index >= Len(qs) THEN <<>>
    ELSE TxtBlock(qs[index + 1], index) \o TxtBlocks(qs, index + 1)

TxtContent(qs) == TxtBlocks(qs, 0)

\* What handleExport hands to the browser: the file of the format asked
\* for, or nothing when building it throws.
Exported(format, qs) ==
    IF format = "csv"
    THEN IF \E i \in 1..Len(qs) : CsvRowThrows(qs[i])
         THEN [kind |-> "TypeError", format |-> format, filename |-> "", mimeType |-> "",
               content |-> <<>>]
         ELSE [kind |-> "file", format |-> format,
               filename |-> "neet_questions_and_solutions.csv",
               mimeType |-> "text/csv;charset=utf-8;", content |-> CsvContent(qs)]
    ELSE [kind |-> "file", format |-> format,
          filename |-> "neet_questions_and_solutions.txt",
          mimeType |-> "text/plain;charset=utf-8", content |-> TxtContent(qs)]

\* Variant: the export also clears the results.
handleExport_ClearsResults(format) ==
    /\ ExportRendered
    /\ download' = IF ~Truthy(questions) THEN download
                   ELSE Exported(format, questions.items)
    /\ results' = NullResults
    /\ subs' = Dropped(subs)
    /\ UNCHANGED <<loading, questions, answers, error, started>>

\* An export button is clicked.
handleExport(format) ==
    /\ ExportRendered
    /\ download' = IF ~Truthy(questions) THEN download
                   ELSE Exported(format, questions.items)
    /\ subs' = Dropped(subs)
    /\ UNCHANGED <<loading, questions, answers, results, error, started>>

\* ---------------------------------------------------------- specification
Next ==
    \/ \E data \in FormData : onSubmit(data)
    \/ \E id \in SubIds : TryBlock(id)
    \/ \E id \in SubIds : FileRead(id)
    \/ \E id \in SubIds, outcome \in FetchOutcomes : FetchSettled(id, outcome)
    \/ \E id \in SubIds : TimerFired(id)
    \/ \E id \in SubIds : JsonSettled(id)
    \/ \E qIndex \in 0..(MaxQuestions - 1), optIndex \in 0..3 : handleAnswerSelect(qIndex, optIndex)
    \/ calculateResults
    \/ \E format \in {"txt", "csv"} : handleExport(format)

Spec == Init /\ [][Next]_vars

\* The steps of a pending run of onSubmit: file reads, fetches, timers and
\* response.json() settle and the run is resumed.
RunStep(id) ==
    \/ TryBlock(id)
    \/ FileRead(id)
    \/ \E outcome \in FetchOutcomes : FetchSettled(id, outcome)
    \/ TimerFired(id)
    \/ JsonSettled(id)

\* A second submit event of the form reaches handleSubmit(onSubmit) (line
\* 249) before the render that disables the button (line 276) is committed:
\* the pending run has not been resumed yet and the form data are the same.
onSubmitWhilePending(id) ==
    /\ subs[id].pc = "try"
    /\ StartRun([files |-> subs[id].files, numQuestions |-> subs[id].numQuestions])

\* The submissions alone, when two submit events can overlap.
NextOverlap ==
    \/ \E data \in FormData : onSubmit(data)
    \/ \E id \in SubIds : onSubmitWhilePending(id)
    \/ \E id \in SubIds : RunStep(id)

SpecOverlap == Init /\ [][NextOverlap]_vars

\* The indices handleAnswerSelect is applied to when it is taken as it
\* stands (lines 160-165), without the radio inputs that call it: those of
\* the questions and the one after the last of the largest set.
SelectIndices == 0..MaxQuestions

\* handleAnswerSelect as it stands: the updater is applied to whatever
\* questionIndex it is given.
handleAnswerSelectCalled(questionIndex, selectedOption) ==
    /\ QuizRendered
    /\ answers' = SelectAnswer(answers, questionIndex, selectedOption)
    /\ subs' = Dropped(subs)
    /\ UNCHANGED <<loading, questions, results, error, download, started>>

NextAnyIndex ==
    \/ Next
    \/ \E questionIndex \in SelectIndices, selectedOption \in Labels :
          handleAnswerSelectCalled(questionIndex, selectedOption)

\* The program with handleAnswerSelect open to any index.
SpecAnyIndex == Init /\ [][NextAnyIndex]_vars

\* Every pending run is resumed in the end.
FairSpec == Spec /\ \A id \in SubIds : WF_vars(RunStep(id))

\* ------------------------------------------------------------ properties
Started(id) == subs[id].pc # "none"
Finished(id) == subs[id].pc = "done"
InFlight(id) == subs[id].pc \notin {"none", "done"}
AllFailed(id) == subs[id].okAttempt = 0
ErrorShown == error = ERROR_MESSAGE /\ ~loading /\ questions = NullQuestions
FirstUnreadable(files) ==
    IF \E j \in 1..Len(files) : ~files[j].readable
    THEN CHOOSE j \in 1..Len(files) :
            ~files[j].readable /\ \A k \in 1..(j - 1) : files[k].readable
    ELSE 0

\* C1: a run of onSubmit whose every fetch failed (rejections and non-success
\* statuses in any mix) has made exactly 5 fetch calls when it is over, and
\* is over in the error state; as long as no fetch of a run has succeeded,
\* questions stays null.
C1_AllFailEndsInErrorAfterFive ==
    \A id \in SubIds :
        /\ (Started(id) /\ AllFailed(id)) => questions = NullQuestions
        /\ (Finished(id) /\ AllFailed(id) /\ subs[id].attempts >= 1) =>
              (subs[id].attempts = 5 /\ ErrorShown)

C1_Witness ==
    \E id \in SubIds :
        /\ Finished(id) /\ AllFailed(id) /\ subs[id].attempts = 5
        /\ subs[id].sawReject /\ ~subs[id].response.isNull
        /\ ErrorShown

\* C2: no run of onSubmit makes more than 5 fetch calls.
C2_AtMostFiveAttempts ==
    \A id \in SubIds : subs[id].attempts <= 5

C2_Witness ==
    \E id \in SubIds :
        subs[id].pc = "fetch" /\ subs[id].attempts = 5 /\ subs[id].retries = 4

\* C3: once a fetch of a run has come back with a success status, the run
\* makes no further fetch call and sets no further timer, and the response
\* it goes on to parse is that one.
C3_NoRetryAfterSuccess ==
    \A id \in SubIds :
        subs[id].okAttempt # 0 =>
            /\ subs[id].attempts = subs[id].okAttempt
            /\ Len(subs[id].waits) = subs[id].okAttempt - 1
            /\ subs[id].pc \in {"json", "done"}
            /\ subs[id].response = subs[id].firstOk

C3_Witness ==
    \E id \in SubIds :
        /\ Finished(id) /\ subs[id].okAttempt = 2 /\ subs[id].attempts = 2
        /\ Truthy(questions)

\* C4: the k-th timer of a run is set to 2^k * 100; a run whose first two
\* fetches fail and whose third succeeds has made 3 fetch calls and waited
\* 200 and then 400.
C4_BackoffDoubles ==
    \A id \in SubIds :
        /\ \A k \in 1..Len(subs[id].waits) : subs[id].waits[k] = (2 ^ k) * 100
        /\ subs[id].okAttempt = 3 =>
              (subs[id].attempts = 3 /\ subs[id].waits = <<200, 400>>)

C4_Witness ==
    \E id \in SubIds :
        subs[id].okAttempt = 3 /\ subs[id].waits = <<200, 400>> /\ Finished(id)

\* C5: a run of onSubmit with an empty file list never has loading true.
C5_EmptyNeverLoading ==
    \A id \in SubIds :
        (Started(id) /\ Len(subs[id].files) = 0) => ~loading

\* C6: a fetch is called only by a run whose file list is non-empty and whose
\* every file has been encoded; a run with an empty list or with a file that
\* cannot be read makes no fetch call and ends in the error state, and no
\* file is read after the one that failed, which is read once.
C6_NoFetchBeforeEncoding ==
    \A id \in SubIds :
        LET s == subs[id]
            bad == FirstUnreadable(s.files)
        IN  /\ s.attempts >= 1 =>
                  /\ Len(s.files) > 0
                  /\ bad = 0
                  /\ Len(s.parts) = Len(s.files) + 1
                  /\ \A j \in 1..Len(s.files) :
                        s.parts[j + 1] = [mimeType |-> s.files[j].type,
                                          data |-> "b64:" \o s.files[j].bytes]
            /\ (Started(id) /\ (Len(s.files) = 0 \/ bad # 0)) =>
                  /\ s.attempts = 0
                  /\ s.pc \in {"try", "encode", "done"}
                  /\ s.reads <= bad
                  /\ Finished(id) => (ErrorShown /\ s.reads = bad)

C6_Witness ==
    \E id \in SubIds :
        /\ Finished(id) /\ Len(subs[id].files) = 2
        /\ subs[id].files[1].readable /\ ~subs[id].files[2].readable
        /\ subs[id].reads = 2 /\ subs[id].attempts = 0 /\ ErrorShown

\* C7: a run that is over has either left the error state, or a question set
\* whose every record has all of questionText, options, correctAnswer and
\* solution.
CompleteRecord(q) ==
    /\ q.questionText # Undefined
    /\ q.options # Undefined
    /\ q.correctAnswer # Undefined
    /\ q.solution # Undefined

C7_ValidSetOrError ==
    \A id \in SubIds :
        Finished(id) =>
            \/ ErrorShown
            \/ /\ Truthy(questions)
               /\ \A i \in 1..Len(questions.items) : CompleteRecord(questions.items[i])

\* C8: the quiz is never scored with an empty question set: totalQuestions
\* is greater than 0, and accuracy is a number, in every result computed.
C8_ScoredSetNonEmpty ==
    results.tag = "set" =>
        (Len(questions.items) > 0 /\ results.totalQuestions > 0 /\ ~results.accuracy.isNaN)

\* C9: exactly one of Idle, Loading, Error, Answering and Scored is active:
\* loading is never true with questions, results or error non-null, error
\* and questions are never both non-null, and results is non-null only
\* while questions is.
IsIdle == ~loading /\ ~Truthy(questions) /\ results.tag = "null" /\ error = Null
IsLoading == loading /\ questions = NullQuestions /\ results.tag = "null" /\ error = Null
IsError == ~loading /\ questions = NullQuestions /\ results.tag = "null" /\ error # Null
IsAnswering == ~loading /\ Truthy(questions) /\ results.tag = "null" /\ error = Null
IsScored == ~loading /\ Truthy(questions) /\ results.tag = "set" /\ error = Null

C9_OneVariantActive ==
    /\ loading => (questions.tag = "null" /\ results.tag = "null" /\ error = Null)
    /\ ~(error # Null /\ questions.tag # "null")
    /\ results.tag = "set" => Truthy(questions)
    /\ Cardinality({v \in {"Idle", "Loading", "Error", "Answering", "Scored"} :
                       \/ v = "Idle" /\ IsIdle
                       \/ v = "Loading" /\ IsLoading
                       \/ v = "Error" /\ IsError
                       \/ v = "Answering" /\ IsAnswering
                       \/ v = "Scored" /\ IsScored}) = 1

C9_Witness ==
    started = 2 /\ IsScored /\ results.score = 1

\* C10: at most one run of onSubmit is between its start and its end, and
\* while one is, loading is true and no submit can start.
C10_OneInFlight ==
    /\ Cardinality({id \in SubIds : InFlight(id)}) <= 1
    /\ (\E id \in SubIds : InFlight(id)) =>
          (loading /\ ~ENABLED (\E data \in FormData : onSubmit(data)))

C10_Witness ==
    /\ started = 1
    /\ \E id \in SubIds : subs[id].pc = "wait"
    /\ ~ENABLED (\E data \in FormData : onSubmit(data))

C12_EndsInAnsweringOrError ==
    /\ \A id \in SubIds :
          (Finished(id) /\ id = started) =>
              (~loading /\ (IsAnswering \/ IsScored \/ IsError))
    /\ ((IsError \/ IsScored) /\ started < MaxSubs) =>
          ENABLED (\E data \in FormData : onSubmit(data))

\* Every run that has started is over in the end, when pending runs are
\* resumed.
EveryRunEnds == \A id \in SubIds : Started(id) ~> Finished(id)

\* C13: while the run of a submit is pending, whatever the state the submit
\* was made in, the session is in Loading with questions, results and error
\* null and an empty answer map.
C13_SubmitClearsRound ==
    \A id \in SubIds :
        InFlight(id) =>
            /\ subs[id].from \in {"Idle", "Error", "Answering", "Scored"}
            /\ IsLoading
            /\ questions = NullQuestions
            /\ answers = EmptyAnswers
            /\ results = NullResults
            /\ error = Null

C13_Witness ==
    \E id \in SubIds :
        /\ subs[id].pc = "fetch" /\ subs[id].from = "Scored"
        /\ IsLoading /\ answers = EmptyAnswers

\* C14: the results hold as score the number of indices i in 0..len-1 with
\* answers[i] equal to the correctAnswer of question i, as totalQuestions the
\* number of questions, and as accuracy 100 * score / totalQuestions (not a
\* number when there is no question).
C14_ScoreTotalAccuracy ==
    results.tag = "set" =>
        LET qs == questions.items
            matching == {i \in 0..(Len(qs) - 1) :
                            AnswerAt(answers, i) = qs[i + 1].correctAnswer}
        IN  /\ results.score = Cardinality(matching)
            /\ results.totalQuestions = Len(qs)
            /\ results.accuracy.isNaN <=> Len(qs) = 0
            /\ Len(qs) > 0 =>
                  results.accuracy.num * Len(qs) = 100 * results.score * results.accuracy.den

C14_Witness ==
    /\ IsScored /\ Len(questions.items) = 2
    /\ DOMAIN answers = {0, 1}
    /\ results.score = 1 /\ results.totalQuestions = 2
    /\ results.accuracy.num = 50 * results.accuracy.den

\* C15: a selection for question i maps i to the label chosen, whatever i
\* was mapped to before, and leaves every other entry as it was.
C15_LastWriteWins ==
    [][\A qIndex \in 0..(MaxQuestions - 1), optIndex \in 0..3 :
          handleAnswerSelect(qIndex, optIndex) =>
              /\ DOMAIN answers' = DOMAIN answers \cup {qIndex}
              /\ answers'[qIndex] = OptionLabel(optIndex)
              /\ \A k \in DOMAIN answers \ {qIndex} : answers'[k] = answers[k]]_vars

C15_Witness ==
    /\ IsAnswering
    /\ DOMAIN answers = {0, 1} /\ answers[0] = "A" /\ answers[1] = "B"
    /\ ENABLED (handleAnswerSelect(0, 1) /\ answers' = (0 :> "B" @@ 1 :> "B"))

\* C16, as stated: the answer map changes only in Answering and only by a
\* selection.
C16_OnlySelectionChangesAnswers ==
    [][answers' # answers =>
          /\ IsAnswering
          /\ \E qIndex \in 0..(MaxQuestions - 1), optIndex \in 0..3 :
                handleAnswerSelect(qIndex, optIndex)]_vars

\* C16: the answer map gets or changes an entry only in Answering and only
\* by a selection; the one other change is a submit, which empties it.
C16_SelectionOrSubmitReset ==
    [][answers' # answers =>
          \/ /\ IsAnswering
             /\ \E qIndex \in 0..(MaxQuestions - 1), optIndex \in 0..3 :
                   handleAnswerSelect(qIndex, optIndex)
          \/ /\ \E data \in FormData : onSubmit(data)
             /\ answers' = EmptyAnswers]_vars

C16_Witness ==
    \E id \in SubIds :
        /\ subs[id].pc = "try" /\ subs[id].from \in {"Answering", "Scored"}
        /\ answers = EmptyAnswers

\* The number an input of NumberInputs stands for.
NumberOf(value) == (CHOOSE input \in NumberInputs : input.value = value).number

\* The text part of a request as it reads with count as the number asked.
TextWithCount(count) ==
    [text |-> <<"From the following files, generate ", count,
                " NEET-level multiple-choice questions.">>]

C18_TextThenFilesInOrder ==
    \A id \in SubIds :
        LET s == subs[id]
        IN  (s.sent.built /\ Len(s.files) > 0 /\ s.numQuestions # ""
                /\ NumberOf(s.numQuestions) >= 1) =>
                /\ Len(s.sent.parts) = Len(s.files) + 1
                /\ s.sent.parts[1] = TextWithCount(s.numQuestions)
                /\ \A j \in 1..Len(s.files) :
                      /\ s.sent.parts[j + 1].mimeType = s.files[j].type
                      /\ s.sent.parts[j + 1].data = "b64:" \o s.files[j].bytes

C18_Witness ==
    \E id \in SubIds :
        /\ subs[id].sent.built /\ subs[id].numQuestions = "3"
        /\ Len(subs[id].files) = 2
        /\ subs[id].files[1].type = "text/plain" /\ subs[id].files[2].type = "image/png"
        /\ subs[id].sent.parts[2].mimeType = "text/plain"
        /\ subs[id].sent.parts[3].mimeType = "image/png"

\* C19: an export, of either format, leaves loading, questions, answers,
\* results and error as they are and starts no run and no fetch; and a file
\* is produced only when there is a question set.
C19_ExportHasNoEffect ==
    /\ [](download.kind # "none" => Truthy(questions))
    /\ [][(\E format \in {"txt", "csv"} : handleExport(format)) =>
             /\ UNCHANGED <<loading, questions, answers, results, error, started>>
             /\ \A id \in SubIds : subs'[id].attempts <= subs[id].attempts]_vars

C19_Witness ==
    /\ IsScored /\ download.kind = "file" /\ download.format = "csv"
    /\ DOMAIN answers = {0}

\* The rows the CSV file is to hold for the questions qs.
RECURSIVE C20_Rows(_)
C20_Rows(qs) ==
    IF qs = <<>> THEN <<>>
    ELSE <<"\"">> \o DoubleQuotes(Head(qs).questionText) \o <<"\"", ",">>
         \o <<"\"">> \o DoubleQuotes(<<Head(qs).correctAnswer>>) \o <<"\"", ",">>
         \o <<"\"">> \o DoubleQuotes(Head(qs).solution) \o <<"\"", "\n">>
         \o C20_Rows(Tail(qs))

\* C20: a CSV export produces a file that holds the header row and then one
\* row per question, in order, each field in double quotes with the quotes
\* inside it doubled.
C20_CsvHeaderAndRows ==
    download.format = "csv" =>
        /\ download.kind = "file"
        /\ download.content = CSV_HEADER \o C20_Rows(questions.items)
        /\ Cardinality({i \in 1..Len(download.content) : download.content[i] = "\n"})
               = Len(questions.items) + 1

\* The sequences of a sequence of sequences, one after the other.
RECURSIVE C21_Concat(_)
C21_Concat(seqs) == IF seqs = <<>> THEN <<>> ELSE Head(seqs) \o C21_Concat(Tail(seqs))

C21_Letters == <<"A", "B", "C", "D">>

\* What the plain-text file is to hold for question n (from 1) of qs: its
\* number and text, one line per option with its letter, the correct answer
\* (the word undefined for a record that holds none), the solution, and a
\* blank line.
C21_Block(qs, n) ==
    LET q == qs[n]
    IN  <<"Question ", ToString(n), ": ">> \o q.questionText \o <<"\n">>
        \o C21_Concat([k \in 1..Len(q.options) |->
                          <<"  ", C21_Letters[k], ". ">> \o q.options[k] \o <<"\n">>])
        \o <<"Correct Answer: ",
             IF q.correctAnswer = Undefined THEN "undefined" ELSE q.correctAnswer, "\n">>
        \o <<"Solution: ">> \o q.solution \o <<"\n">>
        \o <<"\n">>

C22_WaitOnlyBetweenAttempts ==
    \A id \in SubIds :
        /\ subs[id].pc = "wait" => subs[id].attempts < MAX_RETRIES
        /\ (Finished(id) /\ subs[id].attempts >= 1) =>
              Len(subs[id].waits) = subs[id].attempts - 1

\* C23: from the moment results is set until the next submit, results,
\* questions and answers do not change, and the score stays the number of
\* indices whose answer equals the correctAnswer of the question.
C23_ScoreFrozenUntilSubmit ==
    /\ [](results.tag = "set" =>
             results.score =
                 Cardinality({i \in 1..Len(questions.items) :
                                 AnswerAt(answers, i - 1) = questions.items[i].correctAnswer}))
    /\ [][(results.tag = "set" /\ started' = started) =>
             UNCHANGED <<results, questions, answers>>]_vars

C23_Witness ==
    /\ IsScored /\ download.kind = "file" /\ download.format = "txt"
    /\ results.score = 2 /\ results.totalQuestions = 2
    /\ started < MaxSubs

C25_UnansweredNeverCorrect ==
    results.tag = "set" =>
        results.score =
            Cardinality({k \in DOMAIN answers :
                            /\ k + 1 \in 1..Len(questions.items)
                            /\ answers[k] = questions.items[k + 1].correctAnswer})

=============================================================================
